---- MODULE Spec2Model ----
(***************************************************************************)
(* Model of ext/pseudo_random_native/pseudo_random_native.cpp:             *)
(* SeedCalculator (zigzag, encode_varint, canonical_serialize,             *)
(* to_seed_int) and the wrapper seed_to_seed_int.                          *)
(*                                                                         *)
(* A uint64_t is a sequence of 4 limbs of 16 bits, least significant       *)
(* first; an int64_t is the same limbs read in two's complement; a         *)
(* uint32_t is 2 limbs.  All arithmetic is done on the limbs, so that it   *)
(* wraps exactly as the C++ types do.  A uint8_t is a number in 0..255.    *)
(***************************************************************************)
EXTENDS Integers, Sequences, FiniteSets, TLC

\* ------------------------------------------------------------------ words

\* 2^16, 2^15, 2^16 - 1: a limb's base, its top bit, its largest value
Base == 2 ^ 16
Top == 2 ^ 15
Ones == Base - 1

U64Zero == <<0, 0, 0, 0>>

IsZero(x) == x = U64Zero

\* a ^ b on two 4-bit halves
XorNibble ==
  <<<<0, 1, 2, 3, 4, 5, 6, 7, 8, 9, 10, 11, 12, 13, 14, 15>>,
    <<1, 0, 3, 2, 5, 4, 7, 6, 9, 8, 11, 10, 13, 12, 15, 14>>,
    <<2, 3, 0, 1, 6, 7, 4, 5, 10, 11, 8, 9, 14, 15, 12, 13>>,
    <<3, 2, 1, 0, 7, 6, 5, 4, 11, 10, 9, 8, 15, 14, 13, 12>>,
    <<4, 5, 6, 7, 0, 1, 2, 3, 12, 13, 14, 15, 8, 9, 10, 11>>,
    <<5, 4, 7, 6, 1, 0, 3, 2, 13, 12, 15, 14, 9, 8, 11, 10>>,
    <<6, 7, 4, 5, 2, 3, 0, 1, 14, 15, 12, 13, 10, 11, 8, 9>>,
    <<7, 6, 5, 4, 3, 2, 1, 0, 15, 14, 13, 12, 11, 10, 9, 8>>,
    <<8, 9, 10, 11, 12, 13, 14, 15, 0, 1, 2, 3, 4, 5, 6, 7>>,
    <<9, 8, 11, 10, 13, 12, 15, 14, 1, 0, 3, 2, 5, 4, 7, 6>>,
    <<10, 11, 8, 9, 14, 15, 12, 13, 2, 3, 0, 1, 6, 7, 4, 5>>,
    <<11, 10, 9, 8, 15, 14, 13, 12, 3, 2, 1, 0, 7, 6, 5, 4>>,
    <<12, 13, 14, 15, 8, 9, 10, 11, 4, 5, 6, 7, 0, 1, 2, 3>>,
    <<13, 12, 15, 14, 9, 8, 11, 10, 5, 4, 7, 6, 1, 0, 3, 2>>,
    <<14, 15, 12, 13, 10, 11, 8, 9, 6, 7, 4, 5, 2, 3, 0, 1>>,
    <<15, 14, 13, 12, 11, 10, 9, 8, 7, 6, 5, 4, 3, 2, 1, 0>>>>

\* a ^ b on two bytes
Xor8(a, b) ==
  XorNibble[(a % 16) + 1][(b % 16) + 1] + 16 * XorNibble[(a \div 16) + 1][(b \div 16) + 1]

\* a ^ b on two limbs
Xor16(a, b) == Xor8(a % 256, b % 256) + 256 * Xor8(a \div 256, b \div 256)

\* num >> 7 on a uint64_t
Shr7(x) ==
  <<(x[1] \div 128) + (x[2] % 128) * 512,
    (x[2] \div 128) + (x[3] % 128) * 512,
    (x[3] \div 128) + (x[4] % 128) * 512,
    x[4] \div 128>>

\* num << 1 on a uint64_t (the top bit is shifted out)
Shl1(x) ==
  <<(x[1] * 2) % Base,
    ((x[2] * 2) % Base) + (x[1] \div Top),
    ((x[3] * 2) % Base) + (x[2] \div Top),
    ((x[4] * 2) % Base) + (x[3] \div Top)>>

\* num - 1 on a uint64_t (wraps at 0)
Dec(x) ==
  IF x[1] > 0 THEN <<x[1] - 1, x[2], x[3], x[4]>>
  ELSE IF x[2] > 0 THEN <<Ones, x[2] - 1, x[3], x[4]>>
  ELSE IF x[3] > 0 THEN <<Ones, Ones, x[3] - 1, x[4]>>
  ELSE <<Ones, Ones, Ones, (x[4] + Ones) % Base>>

\* num + 1 on a uint64_t (wraps at 2^64 - 1)
Inc(x) ==
  IF x[1] < Ones THEN <<x[1] + 1, x[2], x[3], x[4]>>
  ELSE IF x[2] < Ones THEN <<0, x[2] + 1, x[3], x[4]>>
  ELSE IF x[3] < Ones THEN <<0, 0, x[3] + 1, x[4]>>
  ELSE <<0, 0, 0, (x[4] + 1) % Base>>

\* two's complement negation of 64 bits
Neg64(x) == Inc(<<Ones - x[1], Ones - x[2], Ones - x[3], Ones - x[4]>>)

\* the sign of an int64_t: num >= 0
NonNegative(x) == x[4] < Top

\* INT64_MIN, the one int64_t whose negation is not an int64_t
IsInt64Min(x) == x = <<0, 0, 0, Top>>

\* a non-negative C long (a length or a count) as uint64_t
ToU64(n) == <<n % Base, n \div Base, 0, 0>>

\* x <= y on equally long little-endian limb sequences
RECURSIVE LeqFrom(_, _, _)
LeqFrom(x, y, i) ==
  IF i = 0 THEN TRUE
  ELSE IF x[i] # y[i] THEN x[i] < y[i]
  ELSE LeqFrom(x, y, i - 1)

Leq(x, y) == LeqFrom(x, y, Len(x))

\* ------------------------------------------------------------- constants

\* FNV-1a 64-bit constants 0xcbf29ce484222325, 0x100000001b3, 0xffffffffffffffff
FNV_OFFSET == <<8997, 33826, 40164, 52210>>
FNV_PRIME == <<435, 0, 256, 0>>
MASK64 == <<65535, 65535, 65535, 65535>>

\* --------------------------------------------------------------- zigzag

\* the negative branch with the negation done in uint64_t (what a wrapping
\* build computes for every num, INT64_MIN included)
ZigzagNegWrap(num) == Dec(Shl1(Neg64(num)))

\* zigzag(num): num >= 0 ? (uint64_t(num) << 1) : ((uint64_t(-num) << 1) - 1).
\* -num overflows int64_t for INT64_MIN: the build either wraps or traps
\* (negmin), and the result is then [trap |-> TRUE].
zigzag(num, negmin) ==
  IF NonNegative(num) THEN [trap |-> FALSE, val |-> Shl1(num)]
  ELSE IF IsInt64Min(num) /\ negmin = "trap" THEN [trap |-> TRUE, val |-> U64Zero]
  ELSE [trap |-> FALSE, val |-> ZigzagNegWrap(num)]

\* --------------------------------------------------------- encode_varint

\* a pass that never sets the continuation bit
encode_varint_step_noflag(num) ==
  [push |-> num[1] % 128, num |-> Shr7(num), brk |-> IsZero(Shr7(num))]

\* one pass of the do-while body: the byte pushed, the remaining num, and
\* whether the loop breaks
encode_varint_step(num) ==
  LET byte == num[1] % 128
      rest == Shr7(num)
  IN  IF IsZero(rest)
      THEN [push |-> byte, num |-> rest, brk |-> TRUE]
      ELSE [push |-> byte + 128, num |-> rest, brk |-> FALSE]

RECURSIVE encode_varint(_, _)
encode_varint(buf, num) ==
  LET s == encode_varint_step(num)
  IN  IF s.brk THEN Append(buf, s.push)
      ELSE encode_varint(Append(buf, s.push), s.num)

\* ------------------------------------------------------------- FNV-1a

\* h * FNV_PRIME on uint64_t, limb by limb; the carry out of the top limb
\* is dropped
mul_prime(h) ==
  LET t1 == h[1] * FNV_PRIME[1]
      t2 == h[2] * FNV_PRIME[1] + h[1] * FNV_PRIME[2] + (t1 \div Base)
      t3 == h[3] * FNV_PRIME[1] + h[2] * FNV_PRIME[2] + h[1] * FNV_PRIME[3]
              + (t2 \div Base)
      t4 == h[4] * FNV_PRIME[1] + h[3] * FNV_PRIME[2] + h[2] * FNV_PRIME[3]
              + h[1] * FNV_PRIME[4] + (t3 \div Base)
  IN  <<t1 % Base, t2 % Base, t3 % Base, t4 % Base>>

\* a & MASK64
and_mask64(a) ==
  <<a[1] % (MASK64[1] + 1), a[2] % (MASK64[2] + 1), a[3] % (MASK64[3] + 1),
    a[4] % (MASK64[4] + 1)>>

\* h ^= byte; h = (h * FNV_PRIME) & MASK64
fnv_step(h, byte) ==
  and_mask64(mul_prime(<<Xor16(h[1], byte), h[2], h[3], h[4]>>))

\* for (uint8_t byte : bytes): hs holds the values h has taken so far, the
\* latest last, so Len(hs) bytes are the initial value plus one per byte done
RECURSIVE fnv1a_loop(_, _)
fnv1a_loop(buf, hs) ==
  IF Len(hs) > Len(buf) THEN hs[Len(hs)]
  ELSE fnv1a_loop(buf, Append(hs, fnv_step(hs[Len(hs)], buf[Len(hs)])))

\* uint64_t h = FNV_OFFSET, then the loop
fnv1a(buf) == fnv1a_loop(buf, <<FNV_OFFSET>>)

\* static_cast<uint32_t>(h ^ (h >> 32))
fold32(h) == <<Xor16(h[1], h[3]), Xor16(h[2], h[4])>>

\* the fold left unmasked: what to_seed_int would return without the 31-bit mask
mask_none(s) == s

\* s & 0x7fffffff
mask31(s) == <<s[1], s[2] % Top>>

hash_seed(buf) == mask31(fold32(fnv1a(buf)))

\* ------------------------------------------------------- the host's values

\* type tags pushed by canonical_serialize: 'n' 't' 'f' 'i' 'd' 's' 'y' 'a' 'h' 'T' 'o'
TagNil == 110
TagTrue == 116
TagFalse == 102
TagInt == 105
TagFloat == 100
TagStr == 115
TagSym == 121
TagAry == 97
TagHash == 104
TagTime == 84
TagObj == 111
\* ':' between class name and to_s
Colon == 58

\* What a call into the host (to_s, name) gives back: a String, or a raised
\* exception of class e.
Ok(s) == [k |-> "str", s |-> s]
Raised(e) == [k |-> "raise", e |-> e]

\* A VALUE, by TYPE(obj).  An Integer is sign and magnitude in 5 limbs (a
\* Fixnum or a Bignum); a Float is the uint64_t of its bits; a Hash is its pairs
\* in insertion order; an object is what its class's name and its to_s give.
VNil == [t |-> "nil"]
VTrue == [t |-> "true"]
VFalse == [t |-> "false"]
VInt(neg, mag) == [t |-> "int", neg |-> neg, mag |-> mag]
VFloat(bits) == [t |-> "float", bits |-> bits]
VStr(s) == [t |-> "str", s |-> s]
VSym(s) == [t |-> "sym", s |-> s]
VAry(elems) == [t |-> "ary", elems |-> elems]
VHash(pairs) == [t |-> "hash", pairs |-> pairs]
VTime(sec, nsec) == [t |-> "time", sec |-> sec, nsec |-> nsec]
VObj(name, str) == [t |-> "obj", name |-> name, str |-> str]

\* NUM2LL(obj): the int64_t of a Fixnum/Bignum, or RangeError when the
\* Integer is not in [-2^63, 2^63 - 1] (rb_num2ll / rb_big2ll).
Low64(mag) == <<mag[1], mag[2], mag[3], mag[4]>>

InInt64(obj) ==
  /\ obj.mag[5] = 0
  /\ \/ obj.mag[4] < Top
     \/ obj.neg /\ IsInt64Min(Low64(obj.mag))

\* a conversion that keeps the low 64 bits of any Integer and never raises
NUM2LL_truncating(obj) ==
  [raise |-> "", val |-> IF obj.neg THEN Neg64(Low64(obj.mag)) ELSE Low64(obj.mag)]

NUM2LL(obj) ==
  IF InInt64(obj)
  THEN [raise |-> "", val |-> IF obj.neg THEN Neg64(Low64(obj.mag)) ELSE Low64(obj.mag)]
  ELSE [raise |-> "RangeError", val |-> U64Zero]

RECURSIVE Digits(_)
Digits(n) == IF n < 10 THEN <<48 + n>> ELSE Append(Digits(n \div 10), 48 + (n % 10))

\* rb_funcall(key, rb_intern("to_s"), 0) for the kinds of key the model uses
rb_to_s(key) ==
  CASE key.t = "str" -> Ok(key.s)
    [] key.t = "sym" -> Ok(key.s)
    [] key.t = "nil" -> Ok(<<>>)
    [] key.t = "true" -> Ok(<<116, 114, 117, 101>>)
    [] key.t = "false" -> Ok(<<102, 97, 108, 115, 101>>)
    [] key.t = "int" ->
         Ok((IF key.neg THEN <<45>> ELSE <<>>) \o Digits(key.mag[1]))
    [] key.t = "obj" -> key.str

\* rb_hash_aref(obj, original_key): the value stored under the key itself
rb_hash_aref(obj, key) ==
  LET i == CHOOSE i \in 1..Len(obj.pairs) : obj.pairs[i][1] = key
  IN  obj.pairs[i][2]

\* rb_funcall(obj, rb_intern("keys"), 0): the keys in insertion order
rb_hash_keys(obj) == [i \in 1..Len(obj.pairs) |-> obj.pairs[i][1]]

\* ------------------------------------------------------------- std::sort

\* a.first < b.first on std::string: bytes compared as unsigned char, then length
RECURSIVE StrLessFrom(_, _, _)
StrLessFrom(a, b, i) ==
  IF i > Len(a) THEN i <= Len(b)
  ELSE IF i > Len(b) THEN FALSE
  ELSE IF a[i] # b[i] THEN a[i] < b[i]
  ELSE StrLessFrom(a, b, i + 1)

key_less(a, b) == StrLessFrom(a.first, b.first, 1)

\* std::sort is not stable: entries that compare equal come out in an order
\* the library chooses.  tie = "keep" leaves them in input order, "reverse"
\* reverses them.
RECURSIVE InsertSorted(_, _, _, _)
InsertSorted(sorted, x, i, tie) ==
  IF i > Len(sorted) THEN Append(sorted, x)
  ELSE IF key_less(x, sorted[i]) \/ (tie = "reverse" /\ ~key_less(sorted[i], x))
       THEN SubSeq(sorted, 1, i - 1) \o <<x>> \o SubSeq(sorted, i, Len(sorted))
       ELSE InsertSorted(sorted, x, i + 1, tie)

RECURSIVE SortFrom(_, _, _, _)
SortFrom(seq, i, acc, tie) ==
  IF i > Len(seq) THEN acc
  ELSE SortFrom(seq, i + 1, InsertSorted(acc, seq[i], 1, tie), tie)

std_sort(seq, tie) == SortFrom(seq, 1, <<>>, tie)

\* ------------------------------------------------- canonical_serialize

\* The calculator while it serializes: bytes, the exception or abort that
\* ended the call ("" while it runs), and the deepest canonical_serialize
\* frame entered.
push_back(st, byte) == [st EXCEPT !.bytes = Append(@, byte)]

RECURSIVE push_all(_, _, _)
push_all(st, s, i) ==
  IF i > Len(s) THEN st ELSE push_all(push_back(st, s[i]), s, i + 1)

varint(st, num) == [st EXCEPT !.bytes = encode_varint(@, num)]

fail(st, e) == [st EXCEPT !.err = e]

Max(a, b) == IF a >= b THEN a ELSE b

\* case T_FIXNUM / T_BIGNUM
serialize_int(st, obj, build) ==
  LET s1 == push_back(st, TagInt)
      n == NUM2LL(obj)
      z == zigzag(n.val, build.negmin)
  IN  IF n.raise # "" THEN fail(s1, n.raise)
      ELSE IF z.trap THEN fail(s1, "abort")
      ELSE varint(s1, z.val)

\* case T_FLOAT: the bits, most significant byte first
serialize_float(st, obj) ==
  push_all(push_back(st, TagFloat),
           <<obj.bits[4] \div 256, obj.bits[4] % 256, obj.bits[3] \div 256, obj.bits[3] % 256,
             obj.bits[2] \div 256, obj.bits[2] % 256, obj.bits[1] \div 256, obj.bits[1] % 256>>,
           1)

\* a String written without its length
serialize_string_nolen(st, obj) == push_all(push_back(st, TagStr), obj.s, 1)

\* case T_STRING
serialize_string(st, obj) ==
  push_all(varint(push_back(st, TagStr), ToU64(Len(obj.s))), obj.s, 1)

\* case T_SYMBOL
serialize_symbol(st, obj) ==
  push_all(varint(push_back(st, TagSym), ToU64(Len(obj.s))), obj.s, 1)

\* case T_DATA that is a Time
serialize_time(st, obj) ==
  varint(varint(push_back(st, TagTime), obj.sec), obj.nsec)

\* default: class name + ':' + to_s
serialize_object(st, obj) ==
  LET s1 == push_back(st, TagObj)
  IN  IF obj.name.k = "raise" THEN fail(s1, obj.name.e)
      ELSE IF obj.str.k = "raise" THEN fail(s1, obj.str.e)
      ELSE LET rep == obj.name.s \o <<Colon>> \o obj.str.s
           IN  push_all(varint(s1, ToU64(Len(rep))), rep, 1)

\* the loop that fills sorted_keys: to_s of every key, in keys order
RECURSIVE collect_keys(_, _, _)
collect_keys(keys, i, acc) ==
  IF i > Len(keys) THEN [raise |-> "", keys |-> acc]
  ELSE LET r == rb_to_s(keys[i])
       IN  IF r.k = "raise" THEN [raise |-> r.e, keys |-> acc]
           ELSE collect_keys(keys, i + 1, Append(acc, [first |-> r.s, second |-> keys[i]]))

\* a key slot that holds the key itself rather than its rendering
key_slot_original(key_pair) == key_pair.second

\* what canonical_serialize is given for a key slot
key_slot(key_pair) == VStr(key_pair.first)

RECURSIVE canonical_serialize(_, _, _, _)
RECURSIVE serialize_elems(_, _, _, _, _)
RECURSIVE serialize_pairs(_, _, _, _, _, _)

\* the for loop of case T_ARRAY
serialize_elems(st, elems, i, d, build) ==
  IF i > Len(elems) \/ st.err # "" THEN st
  ELSE serialize_elems(canonical_serialize(st, elems[i], d, build), elems, i + 1, d, build)

\* the for loop over sorted_keys of case T_HASH
serialize_pairs(st, obj, sorted_keys, i, d, build) ==
  IF i > Len(sorted_keys) \/ st.err # "" THEN st
  ELSE LET s1 == canonical_serialize(st, key_slot(sorted_keys[i]), d, build)
           value == rb_hash_aref(obj, sorted_keys[i].second)
           s2 == canonical_serialize(s1, value, d, build)
       IN  serialize_pairs(s2, obj, sorted_keys, i + 1, d, build)

\* case T_HASH
serialize_hash(st, obj, d, build) ==
  LET keys == rb_hash_keys(obj)
      s1 == varint(push_back(st, TagHash), ToU64(Len(keys)))
      got == collect_keys(keys, 1, <<>>)
  IN  IF got.raise # "" THEN fail(s1, got.raise)
      ELSE serialize_pairs(s1, obj, std_sort(got.keys, build.tie), 1, d + 1, build)

\* case T_ARRAY
serialize_array(st, obj, d, build) ==
  serialize_elems(varint(push_back(st, TagAry), ToU64(Len(obj.elems))),
                  obj.elems, 1, d + 1, build)

\* canonical_serialize(obj), entered at recursion depth d
canonical_serialize(st, obj, d, build) ==
  IF st.err # "" THEN st
  ELSE LET s0 == [st EXCEPT !.max = Max(@, d)]
       IN CASE obj.t = "nil" -> push_back(s0, TagNil)
            [] obj.t = "true" -> push_back(s0, TagTrue)
            [] obj.t = "false" -> push_back(s0, TagFalse)
            [] obj.t = "int" -> serialize_int(s0, obj, build)
            [] obj.t = "float" -> serialize_float(s0, obj)
            [] obj.t = "str" -> serialize_string(s0, obj)
            [] obj.t = "sym" -> serialize_symbol(s0, obj)
            [] obj.t = "ary" -> serialize_array(s0, obj, d, build)
            [] obj.t = "hash" -> serialize_hash(s0, obj, d, build)
            [] obj.t = "time" -> serialize_time(s0, obj)
            [] obj.t = "obj" -> serialize_object(s0, obj)

\* ----------------------------------------------------------- to_seed_int

\* a calculator that keeps its buffer from call to call
clear_noop(buf) == buf

\* bytes.clear()
clear(buf) == <<>>

NoSeed == <<>>

\* to_seed_int(obj) on a calculator whose buffer holds buf.  alloc = FALSE
\* is a push_back that throws std::bad_alloc (taken at the first one).  The
\* call returns a seed, or ends in an exception raised by the host
\* ("raise"), a C++ exception ("throw") or the process aborting ("abort").
to_seed_int(buf, obj, build, alloc) ==
  LET st0 == [bytes |-> clear(buf), err |-> "", max |-> 0]
      st == IF alloc THEN canonical_serialize(st0, obj, 1, build)
            ELSE fail(st0, "std::bad_alloc")
  IN  IF st.err = ""
      THEN [bytes |-> st.bytes, max |-> st.max, outcome |-> "return",
            err |-> "", seed |-> hash_seed(st.bytes)]
      ELSE [bytes |-> st.bytes, max |-> st.max,
            outcome |-> CASE st.err = "abort" -> "abort"
                          [] st.err = "std::bad_alloc" -> "throw"
                          [] OTHER -> "raise",
            err |-> st.err, seed |-> NoSeed]

\* catch (const std::exception& e) { rb_raise(rb_eRuntimeError, ...) }: a
\* C++ exception becomes RuntimeError; an exception raised by the host
\* inside rb_funcall or NUM2LL is no std::exception and passes through.
translate(r) ==
  IF r.outcome = "throw"
  THEN [r EXCEPT !.outcome = "raise", !.err = "RuntimeError"]
  ELSE r

\* seed_to_seed_int(self, obj): SeedCalculator calculator; calculator.to_seed_int(obj)
seed_to_seed_int(obj, build, alloc) == translate(to_seed_int(<<>>, obj, build, alloc))

\* ------------------------------------------------------------ the inputs

\* longest array, most pairs in a map, deepest chain of nested containers
MaxLen == 2
MaxPairs == 2
MaxNest == 3

\* the magnitude of a small Integer
Mag(n) == <<n, 0, 0, 0, 0>>

Int5 == VInt(FALSE, Mag(5))
IntNeg1 == VInt(TRUE, Mag(1))
Int1 == VInt(FALSE, Mag(1))
\* 2^63 - 1 and -2^63: the ends of int64_t
Int64Max == VInt(FALSE, <<Ones, Ones, Ones, Top - 1, 0>>)
Int64Min == VInt(TRUE, <<0, 0, 0, Top, 0>>)
\* 2^63, -(2^63 + 1), 2^64 + 5: Bignums outside int64_t
BigPos == VInt(FALSE, <<0, 0, 0, Top, 0>>)
BigNeg == VInt(TRUE, <<1, 0, 0, Top, 0>>)
BigWrap5 == VInt(FALSE, <<5, 0, 0, 0, 1>>)

IntSet ==
  {VInt(FALSE, Mag(0)), Int5, IntNeg1, VInt(FALSE, Mag(64)), Int64Max, Int64Min,
   BigPos, BigNeg, BigWrap5}

\* 0.0, -0.0
FloatSet == {VFloat(U64Zero), VFloat(<<0, 0, 0, Top>>)}

\* "", "a", "ab"
StrSet == {VStr(<<>>), VStr(<<97>>), VStr(<<97, 98>>)}

\* :a
SymSet == {VSym(<<97>>)}

TimeSet == {VTime(U64Zero, U64Zero), VTime(ToU64(128), ToU64(5))}

\* an object of class Foo with to_s "x"; one whose to_s raises; one whose
\* class's name raises
ObjOk == VObj(Ok(<<70, 111, 111>>), Ok(<<120>>))
ObjNoToS == VObj(Ok(<<70, 111, 111>>), Raised("NoMethodError"))
ObjNoName == VObj(Raised("ArgumentError"), Ok(<<120>>))

ObjSet == {ObjOk, ObjNoToS, ObjNoName}

ScalarSet ==
  {VNil, VTrue, VFalse} \cup IntSet \cup FloatSet \cup StrSet \cup SymSet
    \cup TimeSet \cup ObjSet

SeqsUpTo(S, n) == UNION {[1..k -> S] : k \in 0..n}

\* arrays over two unequal elements
ArySet == {VAry(e) : e \in SeqsUpTo({Int5, IntNeg1}, MaxLen)}

\* the pairs maps are built from: the keys 1 and "1" render alike
PairSet == {<<Int1, VSym(<<97>>)>>, <<VStr(<<49>>), Int5>>, <<VStr(<<97>>), VNil>>}

UniqueKeys(pairs) ==
  \A i, j \in 1..Len(pairs) : pairs[i][1] = pairs[j][1] => i = j

HashSet == {VHash(ps) : ps \in {q \in SeqsUpTo(PairSet, MaxPairs) : UniqueKeys(q)}}

\* d containers inside one another
RECURSIVE NestAry(_)
NestAry(d) == IF d = 1 THEN VAry(<<>>) ELSE VAry(<<NestAry(d - 1)>>)

RECURSIVE NestHash(_)
NestHash(d) == IF d = 1 THEN VHash(<<>>) ELSE VHash(<<<<VStr(<<97>>), NestHash(d - 1)>>>>)

NestSet == {NestAry(d) : d \in 1..MaxNest} \cup {NestHash(d) : d \in 1..MaxNest}

\* containers holding what the host cannot convert or render
FailSet ==
  {VAry(<<BigPos>>), VAry(<<Int5, ObjNoToS>>),
   VHash(<<<<ObjNoToS, VNil>>>>), VHash(<<<<VStr(<<97>>), Int5>>, <<ObjNoName, VNil>>>>)}

Values == ScalarSet \cup ArySet \cup HashSet \cup NestSet \cup FailSet

\* ------------------------------------------------------------- the state

VARIABLES
  build,    \* what the compiler and library chose: [tie, negmin]
  bytes,    \* SeedCalculator::bytes of the calculator of the latest call
  obj,      \* the argument of the latest call
  via,      \* the function called: "to_seed_int", "seed_to_seed_int", "none"
  alloc,    \* whether every push_back of the latest call got its memory
  dirty,    \* whether bytes was non-empty when the latest call began
  res,      \* how the latest call ended: [outcome, err, seed, max]
  vpc,      \* encode_varint: "idle", "loop", "done"
  vin,      \* encode_varint: the num it was called with
  vnum,     \* encode_varint: num
  vbase,    \* encode_varint: the buffer when it was called
  vbytes    \* encode_varint: the buffer

vars == <<build, bytes, obj, via, alloc, dirty, res, vpc, vin, vnum, vbase, vbytes>>

calc_vars == <<build, bytes, obj, via, alloc, dirty, res>>

varint_vars == <<vpc, vin, vnum, vbase, vbytes>>

Builds == [tie : {"keep", "reverse"}, negmin : {"wrap", "trap"}]

NoCall == [outcome |-> "none", err |-> "", seed |-> NoSeed, max |-> 0]

Outcome(r) == [outcome |-> r.outcome, err |-> r.err, seed |-> r.seed, max |-> r.max]

CalcInit ==
  /\ bytes = <<>>
  /\ obj = VNil
  /\ via = "none"
  /\ alloc = TRUE
  /\ dirty = FALSE
  /\ res = NoCall

VarintInit ==
  /\ vpc = "idle"
  /\ vin = U64Zero
  /\ vnum = U64Zero
  /\ vbase = <<>>
  /\ vbytes = <<>>

Init ==
  /\ build \in Builds
  /\ CalcInit
  /\ VarintInit

\* calculator.to_seed_int(v) on the calculator of the latest call
ToSeedInt(v, a) ==
  LET r == to_seed_int(bytes, v, build, a)
  IN  /\ bytes' = r.bytes
      /\ res' = Outcome(r)
      /\ obj' = v
      /\ via' = "to_seed_int"
      /\ alloc' = a
      /\ dirty' = (bytes # <<>>)
      /\ UNCHANGED <<build, varint_vars>>

\* PseudoRandom::SeedNative.to_seed_int(v): a calculator of its own
SeedToSeedInt(v, a) ==
  LET r == seed_to_seed_int(v, build, a)
  IN  /\ bytes' = r.bytes
      /\ res' = Outcome(r)
      /\ obj' = v
      /\ via' = "seed_to_seed_int"
      /\ alloc' = a
      /\ dirty' = FALSE
      /\ UNCHANGED <<build, varint_vars>>

\* the nums encode_varint is followed on: 2^s, 2^s - 1, 2^64 - 1
Pow2(s) == [i \in 1..4 |-> IF i = (s \div 16) + 1 THEN 2 ^ (s % 16) ELSE 0]

VarintInputs == {Pow2(s) : s \in 0..63} \cup {Dec(Pow2(s)) : s \in 0..63} \cup {MASK64}

\* what the buffer holds when encode_varint is called
VarintBases == {<<>>, <<TagInt>>, <<TagStr, 1>>}

\* encode_varint(n) is entered
VarintCall(n, base) ==
  /\ vpc \in {"idle", "done"}
  /\ vpc' = "loop"
  /\ vin' = n
  /\ vnum' = n
  /\ vbase' = base
  /\ vbytes' = base
  /\ UNCHANGED calc_vars

\* one pass of its do-while loop
VarintStep ==
  /\ vpc = "loop"
  /\ LET s == encode_varint_step(vnum)
     IN  /\ vbytes' = Append(vbytes, s.push)
         /\ vnum' = s.num
         /\ vpc' = IF s.brk THEN "done" ELSE "loop"
  /\ UNCHANGED <<calc_vars, vin, vbase>>

Next ==
  \/ \E v \in Values, a \in BOOLEAN : ToSeedInt(v, a)
  \/ \E v \in Values, a \in BOOLEAN : SeedToSeedInt(v, a)

Spec == Init /\ [][Next]_vars

NextVarint ==
  \/ \E n \in VarintInputs, base \in VarintBases : VarintCall(n, base)
  \/ VarintStep

SpecVarint == Init /\ [][NextVarint]_vars

\* ---------------------------------------------------------- properties

Called == via # "none"

Returned == Called /\ res.outcome = "return"

\* the bytes canonical_serialize appends for v on an empty buffer
Encode(v) == canonical_serialize([bytes |-> <<>>, err |-> "", max |-> 0], v, 1, build)

\* the call on a calculator that has served no call before
Fresh(v) == to_seed_int(<<>>, v, build, TRUE)

ProperPrefix(a, b) == Len(a) < Len(b) /\ SubSeq(b, 1, Len(a)) = a

Perms(n) == {p \in [1..n -> 1..n] : \A i, j \in 1..n : p[i] = p[j] => i = j}

\* 2^31 - 1 as a uint32_t
Int31Max == <<Ones, Top - 1>>

\* C1: whenever to_seed_int returns, the seed s satisfies 0 <= s <= 2^31 - 1.
C1_SeedRange ==
  Returned => Len(res.seed) = 2 /\ Leq(res.seed, Int31Max) /\ res.seed[2] >= 0

\* a call returned whose folded hash had its top bit set before the mask
C1_Witness == Returned /\ fold32(fnv1a(bytes))[2] >= Top

\* C2: a map with the same pairs enumerated in any other insertion order
\* gives the same bytes and the same seed, also when two keys render alike.
C2_MapOrderErased ==
  (Returned /\ alloc /\ obj.t = "hash") =>
    \A p \in Perms(Len(obj.pairs)) :
      LET other == VHash([i \in 1..Len(obj.pairs) |-> obj.pairs[p[i]]])
          r == Fresh(other)
      IN  r.outcome = "return" /\ r.bytes = bytes /\ r.seed = res.seed

\* C3: after any earlier calls, on the same calculator or a fresh one, the
\* call for obj ends as it does on a calculator that served no call: its
\* buffer starts empty and the seed depends on obj alone.
C3_HistoryIndependent ==
  (Called /\ alloc) =>
    LET f == Fresh(obj)
    IN  /\ res.outcome = f.outcome
        /\ res.err = f.err
        /\ res.seed = f.seed
        /\ bytes = f.bytes

\* to_seed_int returned on a calculator whose buffer held an earlier call's bytes
C3_Witness == via = "to_seed_int" /\ dirty /\ alloc /\ res.outcome = "return"

\* whether the host fails to render or convert some part of v
RECURSIVE HostFails(_)
HostFails(v) ==
  CASE v.t = "obj" -> v.name.k = "raise" \/ v.str.k = "raise"
    [] v.t = "int" -> ~InInt64(v)
    [] v.t = "ary" -> \E i \in 1..Len(v.elems) : HostFails(v.elems[i])
    [] v.t = "hash" ->
         \E i \in 1..Len(v.pairs) :
           rb_to_s(v.pairs[i][1]).k = "raise" \/ HostFails(v.pairs[i][2])
    [] OTHER -> FALSE

\* C4: when deriving a type name or rendering (of an opaque value or a map
\* key), or other host introspection, fails, the call ends with the error
\* kind SeedComputationError and no seed.
C4_SeedComputationError ==
  (via = "seed_to_seed_int" /\ alloc /\ HostFails(obj)) =>
    res.outcome = "raise" /\ res.err = "SeedComputationError" /\ res.seed = NoSeed

\* how many arrays/maps lie inside one another in v
RECURSIVE NestingDepth(_)
RECURSIVE MaxDepthOf(_, _)
MaxDepthOf(vs, i) ==
  IF i > Len(vs) THEN 0 ELSE Max(NestingDepth(vs[i]), MaxDepthOf(vs, i + 1))

NestingDepth(v) ==
  CASE v.t = "ary" -> 1 + MaxDepthOf(v.elems, 1)
    [] v.t = "hash" -> 1 + MaxDepthOf([i \in 1..Len(v.pairs) |-> v.pairs[i][2]], 1)
    [] OTHER -> 0

\* a configured maximum depth that some inputs exceed
DepthLimit == MaxNest - 1

\* C5: when the nesting depth exceeds the configured maximum, the call fails
\* with StructuralLimitError instead of recursing further.
C5_DepthLimited ==
  (Called /\ alloc /\ NestingDepth(obj) > DepthLimit) =>
    /\ res.outcome = "raise"
    /\ res.err = "StructuralLimitError"
    /\ res.max <= DepthLimit + 1

\* an Integer reduced to int64_t: its value mod 2^64, read as signed
Reinterpret64(v) == IF v.neg THEN Neg64(Low64(v.mag)) ELSE Low64(v.mag)

OutOfRange == Called /\ alloc /\ obj.t = "int" /\ ~InInt64(obj)

\* zigzag with the arithmetic taken modulo 2^64
ZigzagNegWrapOrShift(num) == IF NonNegative(num) THEN Shl1(num) ELSE ZigzagNegWrap(num)

StringForm(r) == encode_varint(<<TagStr>>, ToU64(Len(r))) \o r

RECURSIVE SlotsFrom(_, _, _)
SlotsFrom(pairs, p, i) ==
  IF i > Len(pairs) THEN <<>>
  ELSE StringForm(rb_to_s(pairs[p[i]][1]).s) \o Encode(pairs[p[i]][2]).bytes
         \o SlotsFrom(pairs, p, i + 1)

\* keys of several variants, some rendering alike: 1, "1", :"1", "a", :a, nil, ""
KeyUniverse ==
  {Int1, VStr(<<49>>), VSym(<<49>>), VStr(<<97>>), VSym(<<97>>), VNil, VStr(<<>>)}

\* C7: a map's bytes are 'h', varint(pair count), then per pair the String
\* form of the key's rendering followed by the encoding of the value stored
\* under that key; so {k1: x} and {k2: x} with equal renderings give equal
\* bytes and equal seeds.
C7_KeySlotIsRendering ==
  (Returned /\ obj.t = "hash") =>
    /\ \E p \in Perms(Len(obj.pairs)) :
         bytes = encode_varint(<<TagHash>>, ToU64(Len(obj.pairs)))
                   \o SlotsFrom(obj.pairs, p, 1)
    /\ Len(obj.pairs) = 1 =>
         \A k2 \in KeyUniverse :
           rb_to_s(k2) = rb_to_s(obj.pairs[1][1]) =>
             LET r == Fresh(VHash(<<<<k2, obj.pairs[1][2]>>>>))
             IN  r.outcome = "return" /\ r.bytes = bytes /\ r.seed = res.seed

\* the call for {1 => :a}, whose key is an Integer, returned
C7_Witness == Returned /\ obj = VHash(<<<<Int1, VSym(<<97>>)>>>>)

\* C8: the bytes of one value are never a proper prefix of the bytes of
\* another, and two arrays of equal length have the same bytes only if
\* their elements have the same bytes position by position.
C8_PrefixFree ==
  Returned =>
    \A w \in Values :
      LET e == Encode(w)
      IN  e.err = "" =>
            /\ ~ProperPrefix(bytes, e.bytes)
            /\ ~ProperPrefix(e.bytes, bytes)
            /\ (obj.t = "ary" /\ w.t = "ary" /\ Len(obj.elems) = Len(w.elems)
                  /\ e.bytes = bytes) =>
                 \A i \in 1..Len(w.elems) :
                   Encode(w.elems[i]).bytes = Encode(obj.elems[i]).bytes

\* the call for "a" returned, and "ab" is a value too
C8_Witness == Returned /\ obj = VStr(<<97>>) /\ VStr(<<97, 98>>) \in Values

\* 2n for n >= 0 and 2|n| - 1 for n < 0, modulo 2^64, from sign and magnitude
ZigzagOf(v) == IF v.neg THEN Dec(Shl1(Low64(v.mag))) ELSE Shl1(Low64(v.mag))

\* C9: for every int64_t n, -2^63 included, zigzag(n) is 2n or 2|n| - 1 and
\* is injective, so 5 is encoded as 0x69 0x0a and -1 as 0x69 0x01.
C9_Zigzag ==
  (Called /\ alloc /\ obj.t = "int" /\ InInt64(obj)) =>
    /\ res.outcome = "return"
    /\ bytes = encode_varint(<<TagInt>>, ZigzagOf(obj))
    /\ obj = Int5 => bytes = <<105, 10>>
    /\ obj = IntNeg1 => bytes = <<105, 1>>
    /\ \A w \in IntSet : (InInt64(w) /\ w # obj) => ZigzagOf(w) # ZigzagOf(obj)

\* sum of (b_j & 0x7f) * 128^j over the bytes from the j-th on, in 5 limbs
MulAdd128(acc, d) ==
  LET t1 == acc[1] * 128 + d
      t2 == acc[2] * 128 + (t1 \div Base)
      t3 == acc[3] * 128 + (t2 \div Base)
      t4 == acc[4] * 128 + (t3 \div Base)
      t5 == acc[5] * 128 + (t4 \div Base)
  IN  <<t1 % Base, t2 % Base, t3 % Base, t4 % Base, t5 % Base>>

RECURSIVE Decode(_, _)
Decode(out, j) ==
  IF j > Len(out) THEN <<0, 0, 0, 0, 0>>
  ELSE MulAdd128(Decode(out, j + 1), out[j] % 128)

\* the bytes encode_varint has appended so far
Appended == SubSeq(vbytes, Len(vbase) + 1, Len(vbytes))

\* C10: encode_varint ends after 1 to 10 passes, leaves the earlier bytes
\* alone, and has appended bytes whose high bit is set except on the last
\* and whose 7-bit groups, least significant first, make up num; 0 gives
\* the single byte 0x00.
C10_Varint ==
  /\ SubSeq(vbytes, 1, Len(vbase)) = vbase
  /\ vpc = "loop" => Len(Appended) <= 9
  /\ vpc = "done" =>
       /\ Len(Appended) \in 1..10
       /\ \A j \in 1..(Len(Appended) - 1) : Appended[j] \in 128..255
       /\ Appended[Len(Appended)] \in 0..127
       /\ Decode(Appended, 1) = vin \o <<0>>
       /\ IsZero(vin) => Appended = <<0>>

\* encode_varint ended having appended 10 bytes to a buffer that held some
C10_Witness == vpc = "done" /\ Len(Appended) = 10 /\ vbase # <<>>

====
